---- MODULE Spec2Model ----
(***************************************************************************)
(* Model of scripts/calculate-snapshots.py: the replay of a transaction    *)
(* ledger through an average-cost position ledger, one calendar day at a   *)
(* time, and the daily valuation of the positions against a table of       *)
(* historical closing prices.                                              *)
(*                                                                         *)
(* Python floats are binary floating-point numbers.  They are modelled as  *)
(* records [m, e] standing for m * 2^e, with every arithmetic result       *)
(* rounded to MantBits significant bits, ties to even, as IEEE-754 does    *)
(* with 53 bits.  The exponent is unbounded: no overflow, underflow,       *)
(* infinity or NaN is modelled.                                            *)
(***************************************************************************)
EXTENDS Integers, Sequences, FiniteSets, TLC

\* Significant bits of a float (53 in CPython; small here).
MantBits == 5
\* Longest transaction file read.
MaxTx == 3

(***************************************************************************)
(* Floating point                                                          *)
(***************************************************************************)
RECURSIVE Pow2(_)
Pow2(n) == IF n <= 0 THEN 1 ELSE 2 * Pow2(n - 1)

RECURSIVE Pow10(_)
Pow10(n) == IF n <= 0 THEN 1 ELSE 10 * Pow10(n - 1)

RECURSIVE BitLen(_)
BitLen(n) == IF n <= 0 THEN 0 ELSE 1 + BitLen(n \div 2)

IAbs(n) == IF n < 0 THEN -n ELSE n

ISign(n) == IF n < 0 THEN -1 ELSE 1

IMax(a, b) == IF a >= b THEN a ELSE b

IMin(a, b) == IF a <= b THEN a ELSE b

\* n \div d rounded to the nearest integer, ties to the even one (n >= 0, d > 0).
RoundHalfEven(n, d) ==
    LET q == n \div d
        r == n % d
    IN  IF 2 * r > d \/ (2 * r = d /\ q % 2 = 1) THEN q + 1 ELSE q

\* The canonical record of m * 2^e: m odd, or m = 0 and e = 0.
RECURSIVE Norm(_, _)
Norm(m, e) ==
    IF m = 0 THEN [m |-> 0, e |-> 0]
    ELSE IF m % 2 = 0 THEN Norm(m \div 2, e + 1)
    ELSE [m |-> m, e |-> e]

\* m * 2^e rounded to MantBits significant bits, ties to even.
Rnd(m, e) ==
    LET a == IAbs(m)
        k == BitLen(a) - MantBits
    IN  IF k <= 0 THEN Norm(m, e)
        ELSE Norm(ISign(m) * RoundHalfEven(a, Pow2(k)), e + k)

\* (n / d) * 2^e rounded to MantBits significant bits (n >= 0, d > 0): the
\* quotient is taken with two guard bits and a sticky bit, then rounded.
RatRound(n, d, e) ==
    LET k == IMax(0, MantBits + 3 + BitLen(d) - BitLen(n))
        q == (n * Pow2(k)) \div d
        s == IF (n * Pow2(k)) % d = 0 THEN 0 ELSE 1
    IN  Rnd(2 * q + s, e - k - 1)

Zero == [m |-> 0, e |-> 0]

\* The float of an integer literal or of an integer-valued field.
FromInt(n) == Rnd(n, 0)

\* The float nearest to the decimal literal n / 10^digits.
Literal(n, digits) ==
    LET r == RatRound(IAbs(n), Pow10(digits), 0)
    IN  [m |-> ISign(n) * r.m, e |-> r.e]

FNeg(a) == [m |-> -a.m, e |-> a.e]

FAbs(a) == [m |-> IAbs(a.m), e |-> a.e]

\* The integers ma, mb with a = ma * 2^x and b = mb * 2^x, x the smaller exponent.
Align(a, b) ==
    LET x == IMin(a.e, b.e)
    IN  [ma |-> a.m * Pow2(a.e - x), mb |-> b.m * Pow2(b.e - x), e |-> x]

FLt(a, b) ==
    IF a.m = 0 THEN b.m > 0
    ELSE IF b.m = 0 THEN a.m < 0
    ELSE LET al == Align(a, b) IN al.ma < al.mb

FGt(a, b) == FLt(b, a)

FAdd(a, b) ==
    IF a.m = 0 THEN b
    ELSE IF b.m = 0 THEN a
    ELSE LET al == Align(a, b) IN Rnd(al.ma + al.mb, al.e)

FSub(a, b) == FAdd(a, FNeg(b))

FMul(a, b) == Rnd(a.m * b.m, a.e + b.e)

FDiv(a, b) ==
    LET r == RatRound(IAbs(a.m), IAbs(b.m), a.e - b.e)
    IN  IF a.m = 0 THEN Zero
        ELSE [m |-> ISign(a.m) * ISign(b.m) * r.m, e |-> r.e]

\* Python's max(0, x): x when x > 0, else the first argument.
Max0(x) == IF FGt(x, Zero) THEN x ELSE Zero

\* Python's min(a, b): b when b < a, else the first argument.
FMin(a, b) == IF FLt(b, a) THEN b ELSE a

\* Python's round(x, digits): x's exact value rounded to that many decimals,
\* ties to even, then the nearest float.
PyRound(x, digits) ==
    IF x.e >= 0 THEN x
    ELSE IF -x.e > BitLen(IAbs(x.m) * Pow10(digits)) + 1 THEN Zero
    ELSE LET n == RoundHalfEven(IAbs(x.m) * Pow10(digits), Pow2(-x.e))
             r == RatRound(n, Pow10(digits), 0)
         IN  [m |-> ISign(x.m) * r.m, e |-> r.e]

(***************************************************************************)
(* Dates.  A date string "YYYY-MM-DD" is the tuple <<YYYY, MM, DD>> of its  *)
(* zero-padded fields, so that string order is the order of the tuples.    *)
(* A datetime is its day number, counted from 2025-01-01 (day 1); the     *)
(* years from 2025 on are taken as 365 days long (2025-2027 are).         *)
(***************************************************************************)
\* Days of the year before each month, and 365 after December.
CumDays == <<0, 31, 59, 90, 120, 151, 181, 212, 243, 273, 304, 334, 365>>

\* str < str on date strings.
StrLt(a, b) ==
    \/ a[1] < b[1]
    \/ a[1] = b[1] /\ a[2] < b[2]
    \/ a[1] = b[1] /\ a[2] = b[2] /\ a[3] < b[3]

\* datetime.strptime(s, '%Y-%m-%d')
Strptime(s) == 365 * (s[1] - 2025) + CumDays[s[2]] + s[3]

\* datetime.strftime('%Y-%m-%d')
Strftime(day) ==
    LET y == 2025 + ((day - 1) \div 365)
        doy == ((day - 1) % 365) + 1
        m == CHOOSE k \in 1..12 : CumDays[k] < doy /\ doy <= CumDays[k + 1]
    IN  <<y, m, doy - CumDays[m]>>

\* sorted(...) of a set of date strings.
RECURSIVE Sorted(_)
Sorted(S) ==
    IF S = {} THEN <<>>
    ELSE LET first == CHOOSE x \in S : \A y \in S : ~StrLt(y, x)
         IN  <<first>> \o Sorted(S \ {first})

(***************************************************************************)
(* Price table (HISTORICAL_PRICES, in cents).  Only the rows from          *)
(* 2025-10-24 on are kept: the runs of this model start on or after that   *)
(* day, and the table has no row for 2025-10-25 and 2025-10-26 (a weekend) *)
(* nor after 2025-10-28.                                                   *)
(***************************************************************************)
D24 == <<2025, 10, 24>>
D27 == <<2025, 10, 27>>
D28 == <<2025, 10, 28>>
D29 == <<2025, 10, 29>>

None == [none |-> TRUE]

HISTORICAL_PRICES ==
    [ VTI  |-> (D24 :> 33371 @@ D27 :> 33743 @@ D28 :> 33851),
      QQQM |-> (D24 :> 25402 @@ D27 :> 25858 @@ D28 :> 26102),
      SCHD |-> (D24 :> 2703  @@ D27 :> 2712  @@ D28 :> 2703),
      DES  |-> (D24 :> 3389  @@ D27 :> 3374  @@ D28 :> 3344),
      VOO  |-> (D24 :> 62255 @@ D27 :> 63000 @@ D28 :> 63272) ]

Voya == "0899 Vanguard 500 Index Fund Adm"

FUND_TICKER_MAP ==
    ("VTI" :> "VTI") @@ ("QQQM" :> "QQQM") @@ ("SCHD" :> "SCHD") @@
    ("DES" :> "DES") @@ (Voya :> "VOO")

VOYA_CONVERSION_RATIO == Literal(15577, 3)

\* The literal 0.0001 of the valuation loop.
Epsilon == Literal(1, 4)

EndDate == D28

\* Variant: a date without a row takes the price of the latest earlier row.
get_closing_price_carried(fund_name, date_str) ==
    IF fund_name \notin DOMAIN FUND_TICKER_MAP THEN None
    ELSE LET table == HISTORICAL_PRICES[FUND_TICKER_MAP[fund_name]]
             earlier == {d \in DOMAIN table : ~StrLt(date_str, d)}
         IN  IF earlier = {} THEN None
             ELSE LET d == CHOOSE x \in earlier : \A y \in earlier : ~StrLt(x, y)
                      price == Literal(table[d], 2)
                  IN  IF fund_name = Voya
                      THEN FDiv(price, VOYA_CONVERSION_RATIO)
                      ELSE price

get_closing_price(fund_name, date_str) ==
    IF fund_name \notin DOMAIN FUND_TICKER_MAP THEN None
    ELSE LET ticker == FUND_TICKER_MAP[fund_name]
         IN  IF ticker \notin DOMAIN HISTORICAL_PRICES
                \/ date_str \notin DOMAIN HISTORICAL_PRICES[ticker]
             THEN None
             ELSE LET price == Literal(HISTORICAL_PRICES[ticker][date_str], 2)
                  IN  IF fund_name = Voya
                      THEN FDiv(price, VOYA_CONVERSION_RATIO)
                      ELSE price

(***************************************************************************)
(* Position ledger                                                         *)
(***************************************************************************)
\* Variant: the key leaves the fund out.
KeyByAccount(tx) == "||" \o tx.money_source

Key(tx) == tx.fund \o "||" \o tx.money_source

NewPosition(tx) ==
    [key |-> Key(tx), fund |-> tx.fund, account |-> tx.money_source,
     shares |-> Zero, cost_basis |-> Zero]

HasKey(ps, key) == \E i \in DOMAIN ps : ps[i].key = key

IndexOf(ps, key) == CHOOSE i \in DOMAIN ps : ps[i].key = key

\* Variant: the sell/fee branch without the floor at 0.
UpdatePositionNoFloor(pos, units, amount) ==
    IF FGt(units, Zero)
    THEN [pos EXCEPT !.cost_basis = FAdd(@, FAbs(amount)),
                     !.shares = FAdd(@, units)]
    ELSE IF FLt(units, Zero) /\ FGt(pos.shares, Zero)
    THEN LET avg_cost == FDiv(pos.cost_basis, pos.shares)
             cost_reduction == FMul(avg_cost, FMin(FAbs(units), pos.shares))
         IN  [pos EXCEPT !.cost_basis = FSub(@, cost_reduction),
                         !.shares = FSub(@, FAbs(units))]
    ELSE pos

\* Variant: the sell/fee branch takes the row's amount off the cost basis.
UpdatePositionByProceeds(pos, units, amount) ==
    IF FGt(units, Zero)
    THEN [pos EXCEPT !.cost_basis = FAdd(@, FAbs(amount)),
                     !.shares = FAdd(@, units)]
    ELSE IF FLt(units, Zero) /\ FGt(pos.shares, Zero)
    THEN [pos EXCEPT !.cost_basis = Max0(FSub(@, FAbs(amount))),
                     !.shares = Max0(FSub(@, FAbs(units)))]
    ELSE pos

\* Variant: the buy branch adds the signed amount.
UpdatePositionSignedAmount(pos, units, amount) ==
    IF FGt(units, Zero)
    THEN [pos EXCEPT !.cost_basis = FAdd(@, amount),
                     !.shares = FAdd(@, units)]
    ELSE IF FLt(units, Zero) /\ FGt(pos.shares, Zero)
    THEN LET avg_cost == FDiv(pos.cost_basis, pos.shares)
             cost_reduction == FMul(avg_cost, FMin(FAbs(units), pos.shares))
         IN  [pos EXCEPT !.cost_basis = Max0(FSub(@, cost_reduction)),
                         !.shares = Max0(FSub(@, FAbs(units)))]
    ELSE pos

\* Variant: the buy branch is taken for units >= 0.
UpdatePositionZeroBuys(pos, units, amount) ==
    IF ~FLt(units, Zero)
    THEN [pos EXCEPT !.cost_basis = FAdd(@, FAbs(amount)),
                     !.shares = FAdd(@, units)]
    ELSE IF FGt(pos.shares, Zero)
    THEN LET avg_cost == FDiv(pos.cost_basis, pos.shares)
             cost_reduction == FMul(avg_cost, FMin(FAbs(units), pos.shares))
         IN  [pos EXCEPT !.cost_basis = Max0(FSub(@, cost_reduction)),
                         !.shares = Max0(FSub(@, FAbs(units)))]
    ELSE pos

\* The buy and sell/fee branches of the replay loop.
UpdatePosition(pos, units, amount) ==
    IF FGt(units, Zero)
    THEN LET purchase_cost == FAbs(amount)
         IN  [pos EXCEPT !.cost_basis = FAdd(@, purchase_cost),
                         !.shares = FAdd(@, units)]
    ELSE IF FLt(units, Zero) /\ FGt(pos.shares, Zero)
    THEN LET avg_cost == IF FGt(pos.shares, Zero)
                         THEN FDiv(pos.cost_basis, pos.shares) ELSE Zero
             cost_reduction == FMul(avg_cost, FMin(FAbs(units), pos.shares))
         IN  [pos EXCEPT !.cost_basis = Max0(FSub(@, cost_reduction)),
                         !.shares = Max0(FSub(@, FAbs(units)))]
    ELSE pos

\* One iteration of the replay loop on the positions dict (a sequence, in
\* insertion order).
ApplyTx(ps, tx) ==
    LET key == Key(tx)
        qs == IF HasKey(ps, key) THEN ps ELSE Append(ps, NewPosition(tx))
        i == IndexOf(qs, key)
    IN  [qs EXCEPT ![i] = UpdatePosition(qs[i], tx.units, tx.amount)]

(***************************************************************************)
(* Valuation of one date                                                   *)
(***************************************************************************)
HoldingOf(pos, date, closing_price) ==
    LET market_value == FMul(pos.shares, closing_price)
    IN  [snapshot_date |-> date, fund |-> pos.fund, account_name |-> pos.account,
         shares |-> pos.shares, unit_price |-> closing_price,
         market_value |-> market_value, cost_basis |-> pos.cost_basis,
         gain_loss |-> FSub(market_value, pos.cost_basis),
         price_source |-> "historical"]

\* The loop over positions.values(): acc holds holdings and the two totals.
RECURSIVE ValuePositions(_, _, _)
ValuePositions(ps, date, acc) ==
    IF ps = <<>> THEN acc
    ELSE LET pos == Head(ps)
             closing_price == get_closing_price(pos.fund, date)
         IN  IF FLt(FAbs(pos.shares), Epsilon) \/ closing_price = None
             THEN ValuePositions(Tail(ps), date, acc)
             ELSE LET h == HoldingOf(pos, date, closing_price)
                  IN  ValuePositions(Tail(ps), date,
                        [holdings |-> Append(acc.holdings, h),
                         total_market_value |->
                             FAdd(acc.total_market_value, h.market_value),
                         total_cost_basis |->
                             FAdd(acc.total_cost_basis, pos.cost_basis)])

PortfolioOf(date, total_market_value, total_cost_basis) ==
    LET total_gain_loss == FSub(total_market_value, total_cost_basis)
        total_gain_loss_pct ==
            IF FGt(total_cost_basis, Zero)
            THEN FMul(FDiv(total_gain_loss, total_cost_basis), FromInt(100))
            ELSE Zero
    IN  [snapshot_date |-> date,
         total_market_value |-> PyRound(total_market_value, 2),
         total_cost_basis |-> PyRound(total_cost_basis, 2),
         total_gain_loss |-> PyRound(total_gain_loss, 2),
         total_gain_loss_percent |-> PyRound(total_gain_loss_pct, 4),
         snapshot_source |-> "backfill", market_status |-> "closed"]

\* Variant: a portfolio row for every date.
PortfolioRowsAlways(date, v) ==
    <<PortfolioOf(date, v.total_market_value, v.total_cost_basis)>>

\* The portfolio rows a date adds: one, only if the date has holdings.
PortfolioRows(date, v) ==
    IF v.holdings # <<>>
    THEN <<PortfolioOf(date, v.total_market_value, v.total_cost_basis)>>
    ELSE <<>>

(***************************************************************************)
(* Grouping and the date range                                             *)
(***************************************************************************)
\* 2^-14, a holding below the 0.0001 cut.
Tiny == [m |-> 1, e |-> -14]

\* tx_by_date after the grouping loop: each date's rows in file order.
GroupTx(txs) ==
    [d \in {txs[i].date : i \in DOMAIN txs} |->
        SelectSeq(txs, LAMBDA t : t.date = d)]

\* Variant: the dates sorted in descending order, so the latest comes first.
StartDateLatest(tbd) ==
    LET S == DOMAIN tbd
    IN  Strptime(CHOOSE d \in S : \A y \in S : ~StrLt(d, y))

\* The first date of the range.
StartDate(tbd) == Strptime(Sorted(DOMAIN tbd)[1])

\* all_dates: every day from start to end, formatted.
DateRange(start, end) ==
    [i \in 1..IMax(0, end - start + 1) |-> Strftime(start + i - 1)]

\* Reading tx_by_date[date] of a defaultdict(list) adds a missing key.
Touch(tbd, d) == IF d \in DOMAIN tbd THEN tbd ELSE tbd @@ (d :> <<>>)

(***************************************************************************)
(* The program                                                             *)
(***************************************************************************)
VARIABLES
    pc,                  \* "start", "loop", "done" or "crashed"
    transactions,        \* the rows read_transactions returned
    tx_by_date,
    all_dates,
    di,                  \* index in all_dates of the date being processed
    ti,                  \* index in tx_by_date[date] of the next row
    positions,
    portfolio_snapshots,
    holdings_snapshots,
    last,                \* history: the row replayed last and positions before it
    replayed,            \* history: the rows replayed so far, in replay order
    dayStart             \* history: positions when the current date was entered

vars == <<pc, transactions, tx_by_date, all_dates, di, ti, positions,
          portfolio_snapshots, holdings_snapshots, last, replayed, dayStart>>


\* Rows that exercise the ledger arithmetic, all of one date and one fund in
\* two accounts: acquisitions with amounts of both signs, disposals below and
\* up to the holding, and a zero-unit row (amount is read by the buy branch
\* only).
LedgerRows ==
    [date : {D27}, fund : {"VTI"}, money_source : {"PreTax", "Roth"},
     units : {FromInt(25)}, amount : {FromInt(-1), FromInt(32)}]
    \cup
    [date : {D27}, fund : {"VTI"}, money_source : {"PreTax", "Roth"},
     units : {FromInt(0), FromInt(-1), FromInt(-25)}, amount : {FromInt(1)}]

\* Rows that exercise the calendar and the price lookup: dates before and
\* after a weekend and one past the end date; a fund with a scaled price and
\* a fund the ticker map does not know; a holding below the 0.0001 cut.
CalendarRows ==
    [date : {D24, D27}, fund : {"VTI"}, money_source : {"PreTax"},
     units : {FromInt(3), FromInt(-3), Tiny}, amount : {FromInt(-1)}]
    \cup
    [date : {D24, D27}, fund : {Voya, "Stable Value"},
     money_source : {"PreTax"}, units : {FromInt(3)}, amount : {FromInt(-1)}]
    \cup
    [date : {D29}, fund : {"VTI"}, money_source : {"PreTax"},
     units : {FromInt(3)}, amount : {FromInt(-1)}]

SeqsUpTo(S, n) == UNION {[1..k -> S] : k \in 0..n}

Init ==
    /\ transactions \in SeqsUpTo(LedgerRows, MaxTx) \cup SeqsUpTo(CalendarRows, MaxTx)
    /\ pc = "start"
    /\ tx_by_date = <<>>
    /\ all_dates = <<>>
    /\ di = 1
    /\ ti = 1
    /\ positions = <<>>
    /\ portfolio_snapshots = <<>>
    /\ holdings_snapshots = <<>>
    /\ last = None
    /\ replayed = <<>>
    /\ dayStart = <<>>

\* main, lines 148-166: group the rows by date and build the date range.
\* With no row at all, all_tx_dates[0] raises IndexError.
GroupByDate ==
    /\ pc = "start"
    /\ \/ /\ transactions = <<>>
          /\ pc' = "crashed"
          /\ UNCHANGED <<tx_by_date, all_dates>>
       \/ /\ transactions # <<>>
          /\ LET tbd == GroupTx(transactions)
             IN  /\ tx_by_date' = tbd
                 /\ all_dates' = DateRange(StartDate(tbd), Strptime(EndDate))
          /\ pc' = "loop"
    /\ UNCHANGED <<transactions, di, ti, positions, portfolio_snapshots,
                   holdings_snapshots, last, replayed, dayStart>>

\* main, lines 178-204: replay the next row of the current date.
ReplayTx ==
    /\ pc = "loop"
    /\ di <= Len(all_dates)
    /\ ti <= Len(Touch(tx_by_date, all_dates[di])[all_dates[di]])
    /\ LET tx == tx_by_date[all_dates[di]][ti]
       IN  /\ positions' = ApplyTx(positions, tx)
           /\ last' = [tx |-> tx, before |-> positions]
           /\ replayed' = Append(replayed, tx)
    /\ ti' = ti + 1
    /\ UNCHANGED <<pc, transactions, tx_by_date, all_dates, di,
                   portfolio_snapshots, holdings_snapshots, dayStart>>

\* main, lines 206-256: value the positions at the current date's closing
\* prices, append the snapshots, and move to the next date.
Snapshot ==
    /\ pc = "loop"
    /\ di <= Len(all_dates)
    /\ ti > Len(Touch(tx_by_date, all_dates[di])[all_dates[di]])
    /\ LET date == all_dates[di]
           v == ValuePositions(positions, date,
                    [holdings |-> <<>>, total_market_value |-> Zero,
                     total_cost_basis |-> Zero])
       IN  /\ portfolio_snapshots' = portfolio_snapshots \o PortfolioRows(date, v)
           /\ holdings_snapshots' = holdings_snapshots \o v.holdings
           /\ tx_by_date' = Touch(tx_by_date, date)
    /\ di' = di + 1
    /\ ti' = 1
    /\ dayStart' = positions
    /\ UNCHANGED <<pc, transactions, all_dates, positions, last, replayed>>

\* main, lines 258-284: write the two files and print the summary, which
\* reads all_dates[0] and raises IndexError when the range is empty.
WriteOutput ==
    /\ pc = "loop"
    /\ di > Len(all_dates)
    /\ \/ all_dates = <<>> /\ pc' = "crashed"
       \/ all_dates # <<>> /\ pc' = "done"
    /\ UNCHANGED <<transactions, tx_by_date, all_dates, di, ti, positions,
                   portfolio_snapshots, holdings_snapshots, last, replayed,
                   dayStart>>

Next == GroupByDate \/ ReplayTx \/ Snapshot \/ WriteOutput

Spec == Init /\ [][Next]_vars

(***************************************************************************)
(* Exact (unrounded) arithmetic on the values m * 2^e, for stating what    *)
(* the floating-point results are compared with.                           *)
(***************************************************************************)
XMul(a, b) == [m |-> a.m * b.m, e |-> a.e + b.e]

XAdd(a, b) == LET al == Align(a, b) IN [m |-> al.ma + al.mb, e |-> al.e]

XSub(a, b) == LET al == Align(a, b) IN [m |-> al.ma - al.mb, e |-> al.e]

XTimes(n, a) == [m |-> n * a.m, e |-> a.e]

XEq(a, b) == ~FLt(a, b) /\ ~FLt(b, a)

XLe(a, b) == ~FLt(b, a)

\* |a - b| <= n * 2^(-MantBits) * c
Within(a, b, n, c) ==
    XLe(XTimes(Pow2(MantBits), FAbs(XSub(a, b))), XTimes(n, c))

(***************************************************************************)
(* The last replayed row and its position before and after                 *)
(***************************************************************************)
SamePosition(pos, tx) == pos.fund = tx.fund /\ pos.account = tx.money_source

Replayed == last # None

LastBefore ==
    IF \E i \in DOMAIN last.before : SamePosition(last.before[i], last.tx)
    THEN last.before[CHOOSE i \in DOMAIN last.before :
                        SamePosition(last.before[i], last.tx)]
    ELSE [key |-> Key(last.tx), fund |-> last.tx.fund,
          account |-> last.tx.money_source, shares |-> Zero, cost_basis |-> Zero]

LastAfter ==
    positions[CHOOSE i \in DOMAIN positions : SamePosition(positions[i], last.tx)]

IsDisposal == Replayed /\ FLt(last.tx.units, Zero)

PartialDisposal ==
    /\ IsDisposal
    /\ FGt(LastBefore.shares, Zero)
    /\ FLt(FAbs(last.tx.units), LastBefore.shares)

OverDisposal ==
    /\ IsDisposal
    /\ FGt(LastBefore.shares, Zero)
    /\ ~FLt(FAbs(last.tx.units), LastBefore.shares)

\* C1: every tracked position has shares >= 0 and cost_basis >= 0 in every
\* reachable state, also after a disposal of more units than are held.
C1_NonNegative ==
    \A i \in DOMAIN positions :
        ~FLt(positions[i].shares, Zero) /\ ~FLt(positions[i].cost_basis, Zero)

\* C1 witness: a disposal of more units than the position held was replayed.
C1_Witness ==
    /\ IsDisposal
    /\ FGt(LastBefore.shares, Zero)
    /\ FGt(FAbs(last.tx.units), LastBefore.shares)

\* C2 as stated: a disposal of fewer units than held leaves cost_basis / shares
\* unchanged, read either as the float quotients being equal or as
\* cost_basis_after * shares_before = cost_basis_before * shares_after.
C2_ExactAverage ==
    PartialDisposal =>
        \/ FDiv(LastAfter.cost_basis, LastAfter.shares)
              = FDiv(LastBefore.cost_basis, LastBefore.shares)
        \/ XEq(XMul(LastAfter.cost_basis, LastBefore.shares),
               XMul(LastBefore.cost_basis, LastAfter.shares))

\* C2 amended: a disposal of fewer units than held leaves the average cost
\* unchanged up to rounding: |cost_basis_after * shares_before -
\* cost_basis_before * shares_after| <= 5 * 2^(-MantBits) * cost_basis_before *
\* shares_before; shares_after is the float shares_before - |units|; and the
\* result is the same whatever the row's amount.
C2_AverageWithinRounding ==
    PartialDisposal =>
        /\ Within(XMul(LastAfter.cost_basis, LastBefore.shares),
                  XMul(LastBefore.cost_basis, LastAfter.shares),
                  5, XMul(LastBefore.cost_basis, LastBefore.shares))
        /\ LastAfter.shares = FSub(LastBefore.shares, FAbs(last.tx.units))
        /\ \A amount \in {Zero, FromInt(7), FromInt(-1280)} :
               UpdatePosition(LastBefore, last.tx.units, amount) = LastAfter

\* C2 witness: a disposal of fewer units than held was replayed on a position
\* with a cost basis.
C2_Witness == PartialDisposal /\ FGt(LastBefore.cost_basis, Zero)

\* The rows replayed so far on the position, in replay order.
History(pos) == SelectSeq(replayed, LAMBDA t : SamePosition(pos, t))

OnlyAcquisitions(h) == h # <<>> /\ \A i \in DOMAIN h : FGt(h[i].units, Zero)

RECURSIVE ExactSumAbsAmount(_)
ExactSumAbsAmount(h) ==
    IF h = <<>> THEN Zero
    ELSE XAdd(FAbs(Head(h).amount), ExactSumAbsAmount(Tail(h)))

RECURSIVE ExactSumUnits(_)
ExactSumUnits(h) ==
    IF h = <<>> THEN Zero ELSE XAdd(Head(h).units, ExactSumUnits(Tail(h)))

\* The float sums accumulated from 0.0 in the order of h.
RECURSIVE FloatSumAbsAmount(_, _)
FloatSumAbsAmount(h, acc) ==
    IF h = <<>> THEN acc
    ELSE FloatSumAbsAmount(Tail(h), FAdd(acc, FAbs(Head(h).amount)))

RECURSIVE FloatSumUnits(_, _)
FloatSumUnits(h, acc) ==
    IF h = <<>> THEN acc ELSE FloatSumUnits(Tail(h), FAdd(acc, Head(h).units))

Reorder(h, f) == [i \in DOMAIN h |-> h[f[i]]]

\* C3 as stated: after acquisitions only, cost_basis is the sum of |amount| and
\* shares the sum of units, whatever the order of replay: the sums taken in
\* any order give the position's values.
C3_AnyOrderSum ==
    \A i \in DOMAIN positions :
        LET h == History(positions[i])
        IN  OnlyAcquisitions(h) =>
              \A f \in Permutations(DOMAIN h) :
                  /\ FloatSumAbsAmount(Reorder(h, f), Zero) = positions[i].cost_basis
                  /\ FloatSumUnits(Reorder(h, f), Zero) = positions[i].shares

\* C3 amended: after n acquisitions only, cost_basis is the float sum of
\* |amount| accumulated from 0.0 in replay order, whatever the sign of each
\* amount, and shares the float sum of units; each is within n * 2^(-MantBits)
\* (relative) of the exact sum, so the order of replay changes them by at most
\* rounding error.
C3_FloatSum ==
    \A i \in DOMAIN positions :
        LET h == History(positions[i])
        IN  OnlyAcquisitions(h) =>
              /\ positions[i].cost_basis = FloatSumAbsAmount(h, Zero)
              /\ positions[i].shares = FloatSumUnits(h, Zero)
              /\ Within(positions[i].cost_basis, ExactSumAbsAmount(h),
                        Len(h), ExactSumAbsAmount(h))
              /\ Within(positions[i].shares, ExactSumUnits(h),
                        Len(h), ExactSumUnits(h))

\* C3 witness: three acquisitions with amounts of both signs on one position.
C3_Witness ==
    \E i \in DOMAIN positions :
        LET h == History(positions[i])
        IN  /\ OnlyAcquisitions(h)
            /\ Len(h) = 3
            /\ \E j, k \in DOMAIN h : h[j].amount.m < 0 /\ h[k].amount.m > 0

\* C4: a disposal of at least the shares held leaves the position at exactly
\* shares = 0 and cost_basis = 0.
C4_OverDisposalClears ==
    OverDisposal => LastAfter.shares = Zero /\ LastAfter.cost_basis = Zero

\* C6: a row with units = 0, or with units < 0 on a position without shares,
\* leaves that position's shares and cost_basis as they were (0 and 0 for a
\* position the row created), and every row leaves the other positions
\* unchanged.
C6_Frame ==
    Replayed =>
        /\ \E i \in DOMAIN positions : SamePosition(positions[i], last.tx)
        /\ (\/ last.tx.units = Zero
            \/ FLt(last.tx.units, Zero) /\ LastBefore.shares = Zero)
              => /\ LastAfter.shares = LastBefore.shares
                 /\ LastAfter.cost_basis = LastBefore.cost_basis
        /\ \A i \in DOMAIN last.before :
              ~SamePosition(last.before[i], last.tx)
                  => i \in DOMAIN positions /\ positions[i] = last.before[i]

\* C6 witness: a zero-unit row was replayed on a position holding shares while
\* another position was tracked.
C6_Witness ==
    /\ Replayed
    /\ last.tx.units = Zero
    /\ FGt(LastBefore.shares, Zero)
    /\ \E i \in DOMAIN last.before :
          ~SamePosition(last.before[i], last.tx) /\ FGt(last.before[i].shares, Zero)

\* C10: a tracked position with shares = 0 has cost_basis = 0.
C10_NoBasisWithoutShares ==
    \A i \in DOMAIN positions :
        positions[i].shares = Zero => positions[i].cost_basis = Zero

(***************************************************************************)
(* The ledger a date is valued with, computed from the rows read           *)
(***************************************************************************)
RECURSIVE Replay(_, _)
Replay(ps, txs) ==
    IF txs = <<>> THEN ps ELSE Replay(ApplyTx(ps, Head(txs)), Tail(txs))

RowsOn(day) == SelectSeq(transactions, LAMBDA t : Strptime(t.date) = day)

FirstDay ==
    LET days == {Strptime(transactions[i].date) : i \in DOMAIN transactions}
    IN  CHOOSE d \in days : \A x \in days : d <= x

\* The rows dated from lo to hi, by ascending date, in file order within a date.
RECURSIVE Chron(_, _)
Chron(lo, hi) == IF lo > hi THEN <<>> ELSE RowsOn(lo) \o Chron(lo + 1, hi)

LedgerAt(date) == Replay(<<>>, Chron(FirstDay, Strptime(date)))

Started == pc # "start" /\ transactions # <<>>

\* The dates whose snapshot has been taken.
Valued == {all_dates[j] : j \in {k \in DOMAIN all_dates : k < di}}

HoldingsOn(date) ==
    SelectSeq(holdings_snapshots, LAMBDA h : h.snapshot_date = date)

PortfoliosOn(date) ==
    SelectSeq(portfolio_snapshots, LAMBDA r : r.snapshot_date = date)

RECURSIVE SumMarketValue(_, _)
SumMarketValue(hs, acc) ==
    IF hs = <<>> THEN acc
    ELSE SumMarketValue(Tail(hs), FAdd(acc, Head(hs).market_value))

RECURSIVE SumCostBasis(_, _)
SumCostBasis(hs, acc) ==
    IF hs = <<>> THEN acc
    ELSE SumCostBasis(Tail(hs), FAdd(acc, Head(hs).cost_basis))

SnapshotDates ==
    Valued \cup {holdings_snapshots[i].snapshot_date : i \in DOMAIN holdings_snapshots}
           \cup {portfolio_snapshots[i].snapshot_date : i \in DOMAIN portfolio_snapshots}

\* C5: a date has a portfolio snapshot exactly when it has a holding snapshot,
\* and then exactly one, whose total_market_value and total_cost_basis are the
\* sums, accumulated from 0.0 in emission order and rounded to 2 decimals, of
\* the market_value and cost_basis of that date's holding snapshots.
C5_PortfolioAggregatesHoldings ==
    \A d \in SnapshotDates :
        LET hs == HoldingsOn(d)
            rs == PortfoliosOn(d)
        IN  /\ Len(rs) <= 1
            /\ Len(rs) = 1 <=> Len(hs) >= 1
            /\ Len(rs) = 1 =>
                 /\ rs[1].total_market_value = PyRound(SumMarketValue(hs, Zero), 2)
                 /\ rs[1].total_cost_basis = PyRound(SumCostBasis(hs, Zero), 2)

\* C5 witness: one valued date has two holding snapshots and a portfolio
\* snapshot, another valued date has neither.
C5_Witness ==
    /\ \E d \in Valued : Len(HoldingsOn(d)) = 2 /\ Len(PortfoliosOn(d)) = 1
    /\ \E d \in Valued : Len(HoldingsOn(d)) = 0 /\ Len(PortfoliosOn(d)) = 0

\* The price table has a row for the fund's ticker on the date.
PriceListed(fund, date) ==
    /\ fund \in DOMAIN FUND_TICKER_MAP
    /\ date \in DOMAIN HISTORICAL_PRICES[FUND_TICKER_MAP[fund]]

\* That row's price, in the fund's units.
ListedPrice(fund, date) ==
    LET raw == Literal(HISTORICAL_PRICES[FUND_TICKER_MAP[fund]][date], 2)
    IN  IF fund = Voya THEN FDiv(raw, Literal(15577, 3)) ELSE raw

\* |shares| >= 1e-4
AtLeastEpsilon(shares) ==
    XLe([m |-> 1, e |-> 0], XTimes(10000, FAbs(shares)))

HoldingRowsOf(pos, date) ==
    {i \in DOMAIN holdings_snapshots :
        /\ holdings_snapshots[i].snapshot_date = date
        /\ holdings_snapshots[i].fund = pos.fund
        /\ holdings_snapshots[i].account_name = pos.account}

\* C7: for every valued date and every position of the ledger of that date,
\* a holding snapshot exists exactly when |shares| >= 1e-4 and the price table
\* lists the fund on that very date; it carries that date's price and the
\* position's shares and cost_basis; every holding snapshot is of such a
\* position; and valuing a date leaves the positions unchanged.
C7_HoldingIffSharesAndPrice ==
    Started =>
        /\ \A d \in Valued :
              LET ledger == LedgerAt(d)
              IN  /\ \A k \in DOMAIN ledger :
                        LET rows == HoldingRowsOf(ledger[k], d)
                        IN  /\ Cardinality(rows) <= 1
                            /\ rows # {} <=>
                                 /\ AtLeastEpsilon(ledger[k].shares)
                                 /\ PriceListed(ledger[k].fund, d)
                            /\ \A i \in rows :
                                 /\ holdings_snapshots[i].unit_price
                                      = ListedPrice(ledger[k].fund, d)
                                 /\ holdings_snapshots[i].shares = ledger[k].shares
                                 /\ holdings_snapshots[i].cost_basis
                                      = ledger[k].cost_basis
                  /\ Len(HoldingsOn(d))
                       = Cardinality(UNION {HoldingRowsOf(ledger[k], d) :
                                               k \in DOMAIN ledger})
        /\ \A i \in DOMAIN holdings_snapshots :
              holdings_snapshots[i].snapshot_date \in Valued
        /\ (ti = 1 /\ di > 1 /\ all_dates # <<>>)
              => positions = LedgerAt(all_dates[di - 1])

\* C7 witness: a position valued on 2025-10-24 is skipped on 2025-10-25, which
\* has no price, keeps its shares, and is valued again on 2025-10-27.
C7_Witness ==
    /\ pc = "done"
    /\ \E k \in DOMAIN positions :
          /\ HoldingRowsOf(positions[k], D24) # {}
          /\ HoldingRowsOf(positions[k], <<2025, 10, 25>>) = {}
          /\ HoldingRowsOf(positions[k], D27) # {}
          /\ \E k2 \in DOMAIN LedgerAt(<<2025, 10, 25>>) :
                /\ LedgerAt(<<2025, 10, 25>>)[k2].fund = positions[k].fund
                /\ AtLeastEpsilon(LedgerAt(<<2025, 10, 25>>)[k2].shares)

\* The rows of the current date, all replayed.
DayDone ==
    /\ pc = "loop"
    /\ di <= Len(all_dates)
    /\ all_dates[di] \in DOMAIN tx_by_date
    /\ ti > Len(tx_by_date[all_dates[di]])

Today == IF all_dates[di] \in DOMAIN tx_by_date THEN tx_by_date[all_dates[di]] ELSE <<>>

\* shares and cost_basis of every position, whatever the insertion order.
Ledger(ps) ==
    {[fund |-> ps[i].fund, account |-> ps[i].account, shares |-> ps[i].shares,
      cost_basis |-> ps[i].cost_basis] : i \in DOMAIN ps}

SameRowPosition(t, u) == t.fund = u.fund /\ t.money_source = u.money_source

\* f keeps the relative order of the rows of each position.
KeepsPositionOrder(h, f) ==
    \A i, j \in DOMAIN h :
        (i < j /\ SameRowPosition(h[f[i]], h[f[j]])) => f[i] < f[j]

\* C8 as stated: replaying a date's rows in any order gives the same shares and
\* cost_basis for every position.
C8_AnyOrder ==
    DayDone =>
        \A f \in Permutations(DOMAIN Today) :
            Ledger(Replay(dayStart, Reorder(Today, f))) = Ledger(positions)

\* C8 amended: replaying a date's rows in any order that keeps the relative
\* order of the rows of each (fund, account) gives the same shares and
\* cost_basis for every position.
C8_DisjointPositionsCommute ==
    DayDone =>
        \A f \in Permutations(DOMAIN Today) :
            KeepsPositionOrder(Today, f)
                => Ledger(Replay(dayStart, Reorder(Today, f))) = Ledger(positions)

\* C8 witness: a date's rows, an acquisition and a disposal of two different
\* positions that both hold shares, have been replayed.
C8_Witness ==
    /\ DayDone
    /\ \E i, j \in DOMAIN Today :
          /\ ~SameRowPosition(Today[i], Today[j])
          /\ FGt(Today[i].units, Zero)
          /\ FLt(Today[j].units, Zero)
          /\ \E k \in DOMAIN dayStart :
                SamePosition(dayStart[k], Today[j]) /\ FGt(dayStart[k].shares, Zero)

\* The rows replayed once the loop is at date index di and row index ti.
ReplayedByNow ==
    IF di > Len(all_dates) THEN Chron(FirstDay, Strptime(EndDate))
    ELSE Chron(FirstDay, Strptime(all_dates[di]) - 1)
           \o SubSeq(RowsOn(Strptime(all_dates[di])), 1, ti - 1)

\* C9: the dates are every calendar day from the earliest row's date to the end
\* date, ascending; the ledger a date is valued with is the replay, each once
\* and by ascending date, of the rows dated up to that date and of no other;
\* and the snapshots are in ascending date order, none dated past the current
\* date.
C9_ChronologicalReplay ==
    Started =>
        /\ Len(all_dates) = IMax(0, Strptime(EndDate) - FirstDay + 1)
        /\ \A i \in DOMAIN all_dates : Strptime(all_dates[i]) = FirstDay + i - 1
        /\ \A i \in DOMAIN all_dates : i > 1 => StrLt(all_dates[i - 1], all_dates[i])
        /\ replayed = ReplayedByNow
        /\ positions = Replay(<<>>, replayed)
        /\ \A i, j \in DOMAIN portfolio_snapshots :
              i < j => StrLt(portfolio_snapshots[i].snapshot_date,
                             portfolio_snapshots[j].snapshot_date)
        /\ \A i, j \in DOMAIN holdings_snapshots :
              i < j => ~StrLt(holdings_snapshots[j].snapshot_date,
                              holdings_snapshots[i].snapshot_date)
        /\ \A d \in SnapshotDates : d \in Valued

\* C9 witness: a run over rows of two dates in range, given out of date order,
\* and of a date past the end date has finished with two portfolio snapshots.
C9_Witness ==
    /\ pc = "done"
    /\ Len(transactions) = 3
    /\ transactions[1].date = D27
    /\ transactions[2].date = D29
    /\ transactions[3].date = D24
    /\ Len(portfolio_snapshots) >= 2
    /\ Len(replayed) = 2
====
